---- MODULE Spec2Model ----
(***************************************************************************)
(* HD44780 / PCF8574 LCD driver (lcd_hd44780_pcf8574_driver.c): the        *)
(* command queue, the flush engine, the HAL callback adapters and the      *)
(* public API, as a state machine.                                         *)
(*                                                                         *)
(* Mainline code runs one volatile access (or one straight-line group that *)
(* no interrupt can observe in between) per step; main.pc is its position. *)
(* The I2C interrupt (transfer complete / transfer error) runs a whole     *)
(* callback as one step and may fire between any two mainline steps while  *)
(* a DMA transfer is in flight.  gh and ev are history variables: they     *)
(* record what happened and never influence the program.                   *)
(***************************************************************************)
EXTENDS Integers, Sequences, FiniteSets, TLC

\* ---------------------------------------------------------------- bounds
\* API calls per run of Spec
MaxCalls == 2
\* API calls per run of SpecFull (they fill the queue, and two more)
FullCalls == 34
\* of these, calls that enqueue nothing (lcdQueuePause, lcdQueueResume, lcdSetBacklight)
MaxCtl == 1
\* transfer-complete and transfer-error interrupts per run
MaxIrqs == 2
\* API calls and transfer-complete interrupts per run of SpecLive
LiveCalls == 2
LiveIrqs == 8
MaxRow == 4
CursorCalls == 1
CursorIrqs == 2
\* transfer-complete and transfer-error interrupts per run of SpecInit
InitIrqs == 4

\* ------------------------------------------------------- program constants
RS_DATA_REG == 1
RS_INSTR_REG == 0
EN_BIT == 4
BL_ON == 8
BL_OFF == 0
CLEAR_DISPLAY_INSTR == 1
RETURN_HOME_INSTR == 2
ENTRY_MODE_SET_INSTR_BIT == 4
EMS_ENTRY_RTL == 2
EMS_DISP_SHIFT_ON == 1
DC_DISP_OFF == 0
DC_CURSOR_ON == 2
DC_BLINK_ON == 1
EMS_ENTRY_LTR == 0
EMS_DISP_SHIFT_OFF == 0
DISPLAY_CONTROL_INSTR_BIT == 8
DC_DISP_ON == 4
DC_CURSOR_OFF == 0
DC_BLINK_OFF == 0
FUNCTION_SET_INSTR_BIT == 32
FS_4BIT_MODE == 0
FS_2LINE_MAP == 8
FS_1LINE_MAP == 0
FS_5x10_DOTS == 4
FS_5x8_DOTS == 0
SET_DDRAM_ADDR_INSTR_BIT == 128
DDRAM_ADDR_R0C0 == 0
DDRAM_ADDR_R1C0 == 64
DDRAM_ADDR_R2C0 == 20
DDRAM_ADDR_R3C0 == 84
INIT_8BIT_MODE == 48
INIT_4BIT_MODE == 32
QUEUE_SIZE == 32
\* enq: HAL_GetTick() - tickStart > 10
TIMEOUT_MS == 10
\* lcdClear / lcdReturnHome: for (i = 0; i < 3; i++) enq(&e)
DUMMY_LOOP == 3
\* uint8_t arithmetic
BYTE == 256

LCD_OK == "LCD_OK"
LCD_QUEUE_PAUSED_AND_FULL == "LCD_QUEUE_PAUSED_AND_FULL"
LCD_QUEUE_FULL_TIMEOUT == "LCD_QUEUE_FULL_TIMEOUT"
LCD_QUEUE_EMPTY == "LCD_QUEUE_EMPTY"
LCD_I2C_TX_INIT_FAIL == "LCD_I2C_TX_INIT_FAIL"
LCD_I2C_ERROR == "LCD_I2C_ERROR"

\* characters lcdPrintChar is called with in Spec ('H', 'i'), and in SpecFull ('H')
Chars == {72, 105}
FillChars == {72}
\* what HAL_I2C_GetError can return: HAL_I2C_ERROR_NONE or an error code (AF)
HalErrors == {0, 4}

\* ---------------------------------------------------------- byte operations
RECURSIVE BitAnd(_, _)
BitAnd(a, b) ==
    IF a = 0 \/ b = 0 THEN 0
    ELSE (a % 2) * (b % 2) + 2 * BitAnd(a \div 2, b \div 2)

RECURSIVE BitOr(_, _)
BitOr(a, b) ==
    IF a = 0 THEN b
    ELSE IF b = 0 THEN a
    ELSE ((a % 2) + (b % 2) - (a % 2) * (b % 2)) + 2 * BitOr(a \div 2, b \div 2)

\* a wrong txByte: the low nibble is sent where it stands, not shifted up
MutFrame(rs, data, blv) ==
    LET hi == BitOr(BitOr(BitAnd(data, 240), rs), blv)
        lo == BitOr(BitOr(BitAnd(data, 15), rs), blv)
    IN  <<hi, BitOr(hi, EN_BIT), hi, lo, BitOr(lo, EN_BIT), lo>>

\* the 6-byte buffer txByte fills for (rs, data) under backlight mask blv
Frame(rs, data, blv) ==
    LET hi == BitOr(BitOr(BitAnd(data, 240), rs), blv)
        lo == BitOr(BitOr((data * 16) % BYTE, rs), blv)
    IN  <<hi, BitOr(hi, EN_BIT), hi, lo, BitOr(lo, EN_BIT), lo>>

QueueEntry(rs, data) == [rs |-> rs, data |-> data]
\* a zero-initialised QueueEntry_t
ZeroEntry == QueueEntry(0, 0)

\* ------------------------------------------------------------------ state
VARIABLES
    queue,              \* QueueEntry_t queue[QUEUE_SIZE]
    qWriteIdx,
    qReadIdx,
    qEntryCount,
    qPaused,
    flushInProgress,
    i2cErrorPending,
    lcdStatus,
    bl,                 \* backlight mask
    shadow,             \* the settings bytes EMS_*, DC_*, FS_* (lines 65-72)
    main,               \* mainline: program position and locals
    inflight,           \* DMA transfers accepted and not yet completed or failed
    callsLeft,          \* API calls the application may still start
    ctlLeft,            \* of these, calls that enqueue nothing
    irqsLeft,           \* I2C interrupts that may still fire
    gh,                 \* history: see GhostInit
    ev                  \* history: what the last step did

qvars == <<queue, qWriteIdx, qReadIdx, qEntryCount>>
vars == <<queue, qWriteIdx, qReadIdx, qEntryCount, qPaused, flushInProgress,
          i2cErrorPending, lcdStatus, bl, shadow, main, inflight, callsLeft, ctlLeft, irqsLeft,
          gh, ev>>

\* default settings, lines 65-72, and the I2C handle, line 82
DefaultSettings ==
    [lcdhi2c |-> "NULL",
     EMS_entryDir |-> EMS_ENTRY_LTR, EMS_dispShift |-> EMS_DISP_SHIFT_OFF,
     DC_dispState |-> DC_DISP_ON, DC_cursorVisblty |-> DC_CURSOR_OFF,
     DC_cursorBlink |-> DC_BLINK_OFF, FS_dataLength |-> FS_4BIT_MODE,
     FS_numOfLines |-> FS_2LINE_MAP, FS_fontSize |-> FS_5x8_DOTS]

\* mainline at rest: no API call is running
MainIdle ==
    [pc |-> "idle", op |-> "none", left |-> 0, e |-> ZeroEntry, pe |-> ZeroEntry,
     tmp |-> 0, elapsed |-> 0, cnt0 |-> 0, rd0 |-> 0]

\* ev: cb   the callback that ran ("none", "cplt", "error")
\*     tx   what txByte did ("none", "ok" handed to DMA, "refused", "blocked" by the
\*          paired-error check: no tx_dma call)
\*     e, idx, frame   the entry txByte was given, its queue slot, the buffer built
\*     err  the latched error txByte read
\*     fl   the status of the flush step that ended in this step ("none" if none did)
\*     ret, op   the status the API call op returned in this step ("none" if none did)
\*     caller    who ran the flush step or called txByte: the API op, "cplt", or "none"
\*     dcount, drained   on return: count now minus count at the call, and whether
\*          read_idx moved during the call
\*     prev the slot whose hand-off tx_dma had refused at the attempt before this
\*          one, or -1
\*     pend, held   i2cErrorPending and qPaused as txByte found them
\*     restart      txByte ran for the first time since the error callback left a
\*          non-empty, unpaused queue (gh.armed)
\*     was  on return: gh.hist up to the call's last step, its status not counted
NoEv ==
    [cb |-> "none", tx |-> "none", e |-> ZeroEntry, idx |-> 0, frame |-> <<>>,
     err |-> 0, fl |-> "none", ret |-> "none", op |-> "none", caller |-> "none",
     dcount |-> 0, drained |-> FALSE, prev |-> -1, pend |-> FALSE, held |-> FALSE,
     was |-> "none", restart |-> FALSE]

\* gh: pending     entries stored in the queue and not yet handed to DMA, oldest first
\*     fifoBroken  a frame was handed to DMA that was not the oldest pending entry's
\*     hist        "quiet": only lcdPrintChar calls that returned OK, every transfer
\*                 accepted, no latched error read, no callback yet;
\*                 "clean": only OK returns, no pause, every transfer accepted, no
\*                 latched error read, no error callback;
\*                 "dirty": anything else
\*     userPaused  lcdQueuePause was called and lcdQueueResume not since
\*     failure     the failure that paused the queue, until lcdQueueResume
\*     flying      the slot of the entry whose transfer is in flight
\*     enqd        the entries the running (or last) API call stored
\*     refused     the slot whose hand-off tx_dma last refused, or -1
\*     blk         the buffers lcdInit sent with blocking transmissions
\*     args        the arguments of the last lcdSetCursorPos call
\*     armed       the error callback left a non-empty, unpaused queue, and txByte
\*                 has not been called since
\*     before      the settings bytes and the backlight mask as the last settings
\*                 call found them
\*     raced       a completion callback ran while the mainline flush was between
\*                 its hand-off to tx_dma and the end of deq()
GhostInit ==
    [pending |-> <<>>, fifoBroken |-> FALSE, hist |-> "quiet", userPaused |-> FALSE,
     failure |-> "none", flying |-> -1, enqd |-> <<>>, refused |-> -1, blk |-> <<>>,
     args |-> <<>>, raced |-> FALSE, armed |-> FALSE, before |-> <<>>]

StaticInit ==
    /\ queue = [i \in 0..(QUEUE_SIZE - 1) |-> ZeroEntry]
    /\ qWriteIdx = 0
    /\ qReadIdx = 0
    /\ qEntryCount = 0
    /\ qPaused = FALSE
    /\ flushInProgress = FALSE
    /\ i2cErrorPending = FALSE
    /\ lcdStatus = LCD_OK
    /\ bl = BL_ON
    /\ shadow = DefaultSettings
    /\ main = MainIdle
    /\ inflight = 0
    /\ gh = GhostInit
    /\ ev = NoEv

Init == StaticInit /\ callsLeft = MaxCalls /\ ctlLeft = MaxCtl /\ irqsLeft = MaxIrqs

InitFull == StaticInit /\ callsLeft = FullCalls /\ ctlLeft = MaxCtl /\ irqsLeft = MaxIrqs

\* --------------------------------------------------------------- helpers
Worse(h, cond) == IF cond THEN "dirty" ELSE h
NotQuiet(h, cond) == IF cond /\ h = "quiet" THEN "clean" ELSE h

\* the API call returns: locals die, the tick count of the last wait is kept
RetMain == [MainIdle EXCEPT !.elapsed = main.elapsed]
RetEv(base, status, cntAfter, rdAfter, h) ==
    [base EXCEPT !.ret = status, !.op = main.op, !.was = h,
                 !.dcount = cntAfter - main.cnt0,
                 !.drained = (rdAfter # main.rd0)]

\* txByte, lines 177-190: the paired-error check, then the hand-off to DMA.
\* err is what HAL_I2C_GetError returns, acc whether HAL_I2C_Master_Transmit_DMA
\* returns HAL_OK.
TxByteResult(err, acc) ==
    IF err # 0 /\ i2cErrorPending
    THEN [status |-> LCD_I2C_ERROR, tx |-> "blocked", paused |-> TRUE, pend |-> FALSE]
    ELSE [status |-> IF acc THEN LCD_OK ELSE LCD_I2C_TX_INIT_FAIL,
          tx |-> IF acc THEN "ok" ELSE "refused",
          paused |-> qPaused, pend |-> (err # 0)]

\* what the caller of flush() does with its status: enqAndBeginFlushing and
\* lcdFlushQueue store it in lcdStatus, lcdQueueResume only returns it
\* (line 247), lcdInit keeps it in a local (line 484)
StatusAfterFlush(status) ==
    IF main.op \in {"lcdQueueResume", "lcdInit"} THEN lcdStatus ELSE status

\* history of one txByte call on entry en of slot idx
GhostTx(g, r, en, idx, err) ==
    [g EXCEPT
        !.pending = IF r.tx = "ok" /\ g.pending # <<>> /\ Head(g.pending) = en
                    THEN Tail(g.pending) ELSE g.pending,
        !.fifoBroken = g.fifoBroken
                       \/ (r.tx = "ok" /\ (g.pending = <<>> \/ Head(g.pending) # en)),
        !.hist = Worse(g.hist, err # 0 \/ r.tx # "ok"),
        !.failure = IF r.tx = "blocked" THEN LCD_I2C_ERROR ELSE g.failure,
        !.flying = IF r.tx = "ok" THEN idx ELSE g.flying,
        !.refused = IF r.tx = "refused" THEN idx ELSE -1,
        !.armed = FALSE]

\* a wrong txByte: the buffer is built with the power-on backlight mask
MutEvTx(r, en, idx, err, prev) ==
    [NoEv EXCEPT !.tx = r.tx, !.e = en, !.idx = idx, !.err = err, !.prev = prev,
                 !.pend = i2cErrorPending, !.held = qPaused, !.restart = gh.armed,
                 !.frame = IF r.tx = "blocked" THEN <<>> ELSE Frame(en.rs, en.data, BL_ON)]

EvTx(r, en, idx, err, prev) ==
    [NoEv EXCEPT !.tx = r.tx, !.e = en, !.idx = idx, !.err = err, !.prev = prev,
                 !.pend = i2cErrorPending, !.held = qPaused, !.restart = gh.armed,
                 !.frame = IF r.tx = "blocked" THEN <<>> ELSE Frame(en.rs, en.data, bl)]

\* ---------------------------------------------------- composed instructions
\* lines 76-78
EMS_INSTR(sh) == BitOr(BitOr(ENTRY_MODE_SET_INSTR_BIT, sh.EMS_entryDir), sh.EMS_dispShift)
DC_INSTR(sh) ==
    BitOr(BitOr(BitOr(DISPLAY_CONTROL_INSTR_BIT, sh.DC_dispState), sh.DC_cursorVisblty),
          sh.DC_cursorBlink)
FS_INSTR(sh) ==
    BitOr(BitOr(BitOr(FUNCTION_SET_INSTR_BIT, sh.FS_dataLength), sh.FS_numOfLines),
          sh.FS_fontSize)

\* lcdInit, lines 456-459 and 467-469: the 3-byte buffer of a blocking transmission
InitBuffer(mode, blv) ==
    LET b0 == BitOr(mode, blv) IN <<b0, BitOr(b0, EN_BIT), b0>>

\* ------------------------------------------------------ mainline: API calls
\* an API function builds its entry and calls enq: nPlain plain enq() calls come
\* before the enq() inside enqAndBeginFlushing
ApiStart(name, en, nPlain) ==
    /\ main.pc = "idle"
    /\ callsLeft > 0
    /\ callsLeft' = callsLeft - 1
    /\ main' = [MainIdle EXCEPT !.pc = "enq_chk", !.op = name, !.left = nPlain,
                                !.e = en, !.cnt0 = qEntryCount, !.rd0 = qReadIdx]
    /\ gh' = [gh EXCEPT !.enqd = <<>>,
                        !.hist = NotQuiet(gh.hist, name # "lcdPrintChar")]
    /\ ev' = NoEv
    /\ UNCHANGED <<qvars, qPaused, flushInProgress, i2cErrorPending, lcdStatus, bl, shadow,
                   inflight, irqsLeft, ctlLeft>>

lcdPrintChar(c) == ApiStart("lcdPrintChar", QueueEntry(RS_DATA_REG, c), 0)

lcdClear ==
    ApiStart("lcdClear", QueueEntry(RS_INSTR_REG, CLEAR_DISPLAY_INSTR), 1 + DUMMY_LOOP)

lcdReturnHome ==
    ApiStart("lcdReturnHome", QueueEntry(RS_INSTR_REG, RETURN_HOME_INSTR), 1 + DUMMY_LOOP)

\* lcdSetCursorPos, lines 405-420: the values e.data can hold at line 421.  The
\* sum is an int stored into a uint8_t; for a row the switch does not list,
\* e.data was never assigned and the entry carries whatever the stack held.
CursorData(row, col) ==
    IF row = 0 THEN {(BitOr(SET_DDRAM_ADDR_INSTR_BIT, DDRAM_ADDR_R0C0) + col) % BYTE}
    ELSE IF row = 1 THEN {(BitOr(SET_DDRAM_ADDR_INSTR_BIT, DDRAM_ADDR_R1C0) + col) % BYTE}
    ELSE IF row = 2 THEN {(BitOr(SET_DDRAM_ADDR_INSTR_BIT, DDRAM_ADDR_R2C0) + col) % BYTE}
    ELSE IF row = 3 THEN {(BitOr(SET_DDRAM_ADDR_INSTR_BIT, DDRAM_ADDR_R3C0) + col) % BYTE}
    ELSE 0..(BYTE - 1)

\* lcdSetCursorPos, lines 402-422
lcdSetCursorPos(row, col) ==
    /\ main.pc = "idle"
    /\ callsLeft > 0
    /\ callsLeft' = callsLeft - 1
    /\ \E d \in CursorData(row, col) :
         main' = [MainIdle EXCEPT !.pc = "enq_chk", !.op = "lcdSetCursorPos", !.left = 0,
                                  !.e = QueueEntry(RS_INSTR_REG, d),
                                  !.cnt0 = qEntryCount, !.rd0 = qReadIdx]
    /\ gh' = [gh EXCEPT !.enqd = <<>>, !.hist = NotQuiet(gh.hist, TRUE),
                        !.args = <<row, col>>]
    /\ ev' = NoEv
    /\ UNCHANGED <<qvars, qPaused, flushInProgress, i2cErrorPending, lcdStatus, bl, shadow,
                   inflight, irqsLeft, ctlLeft>>

\* a settings call: the shadow byte is written first, then the instruction built
\* from the shadow is handed to enqAndBeginFlushing
SettingCall(name, sh, blv, instr) ==
    /\ main.pc = "idle"
    /\ callsLeft > 0
    /\ ctlLeft > 0
    /\ callsLeft' = callsLeft - 1
    /\ ctlLeft' = ctlLeft - 1
    /\ shadow' = sh
    /\ bl' = blv
    /\ main' = [MainIdle EXCEPT !.pc = "enq_chk", !.op = name, !.left = 0,
                                !.e = QueueEntry(RS_INSTR_REG, instr),
                                !.cnt0 = qEntryCount, !.rd0 = qReadIdx]
    /\ gh' = [gh EXCEPT !.enqd = <<>>, !.hist = NotQuiet(gh.hist, TRUE),
                        !.before = <<shadow, bl>>]
    /\ ev' = NoEv
    /\ UNCHANGED <<qvars, qPaused, flushInProgress, i2cErrorPending, lcdStatus, inflight,
                   irqsLeft>>

\* lines 328-332
lcdSetLTR ==
    LET sh == [shadow EXCEPT !.EMS_entryDir = EMS_ENTRY_LTR]
    IN  SettingCall("lcdSetLTR", sh, bl, EMS_INSTR(sh))

\* lines 334-338
lcdSetRTL ==
    LET sh == [shadow EXCEPT !.EMS_entryDir = EMS_ENTRY_RTL]
    IN  SettingCall("lcdSetRTL", sh, bl, EMS_INSTR(sh))

\* lines 340-347
lcdSetAutoScroll(state) ==
    LET sh == [shadow EXCEPT
                  !.EMS_dispShift = IF state THEN EMS_DISP_SHIFT_ON ELSE EMS_DISP_SHIFT_OFF]
    IN  SettingCall("lcdSetAutoScroll", sh, bl, EMS_INSTR(sh))

\* lines 351-358
lcdSetDisplay(state) ==
    LET sh == [shadow EXCEPT !.DC_dispState = IF state THEN DC_DISP_ON ELSE DC_DISP_OFF]
    IN  SettingCall("lcdSetDisplay", sh, bl, DC_INSTR(sh))

\* lines 360-367
lcdSetCursorVisible(state) ==
    LET sh == [shadow EXCEPT
                  !.DC_cursorVisblty = IF state THEN DC_CURSOR_ON ELSE DC_CURSOR_OFF]
    IN  SettingCall("lcdSetCursorVisible", sh, bl, DC_INSTR(sh))

\* lines 369-376
lcdSetCursorBlink(state) ==
    LET sh == [shadow EXCEPT !.DC_cursorBlink = IF state THEN DC_BLINK_ON ELSE DC_BLINK_OFF]
    IN  SettingCall("lcdSetCursorBlink", sh, bl, DC_INSTR(sh))

\* lines 289-296
lcdSetBacklightNow(state) ==
    SettingCall("lcdSetBacklightNow", shadow, IF state THEN BL_ON ELSE BL_OFF, 0)

lcdSetBacklight(state) ==
    /\ main.pc = "idle"
    /\ callsLeft > 0
    /\ ctlLeft > 0
    /\ callsLeft' = callsLeft - 1
    /\ ctlLeft' = ctlLeft - 1
    /\ bl' = IF state THEN BL_ON ELSE BL_OFF
    /\ ev' = NoEv
    /\ UNCHANGED <<shadow, qvars, qPaused, flushInProgress, i2cErrorPending, lcdStatus, main,
                   inflight, gh, irqsLeft>>

lcdQueuePause ==
    /\ main.pc = "idle"
    /\ callsLeft > 0
    /\ ctlLeft > 0
    /\ callsLeft' = callsLeft - 1
    /\ ctlLeft' = ctlLeft - 1
    /\ qPaused' = TRUE
    /\ gh' = [gh EXCEPT !.userPaused = TRUE, !.hist = "dirty"]
    /\ ev' = NoEv
    /\ UNCHANGED <<qvars, flushInProgress, i2cErrorPending, lcdStatus, bl, shadow, main,
                   inflight, irqsLeft>>

\* lcdQueueResume, line 244
lcdQueueResume ==
    /\ main.pc = "idle"
    /\ callsLeft > 0
    /\ ctlLeft > 0
    /\ callsLeft' = callsLeft - 1
    /\ ctlLeft' = ctlLeft - 1
    /\ qPaused' = FALSE
    /\ main' = [MainIdle EXCEPT !.pc = "res_chk", !.op = "lcdQueueResume",
                                !.cnt0 = qEntryCount, !.rd0 = qReadIdx]
    /\ gh' = [gh EXCEPT !.userPaused = FALSE, !.failure = "none", !.hist = "dirty"]
    /\ ev' = NoEv
    /\ UNCHANGED <<qvars, flushInProgress, i2cErrorPending, lcdStatus, bl, shadow, inflight, irqsLeft>>

\* lcdQueueResume without its flushInProgress check
MutResumeBusy == FALSE

\* lcdQueueResume, line 245: if (flushInProgress) return LCD_OK
ResumeBusy == flushInProgress

\* lcdQueueResume, lines 245-246
ResumeChk ==
    /\ main.pc = "res_chk"
    /\ IF ResumeBusy
       THEN /\ main' = RetMain
            /\ ev' = RetEv(NoEv, LCD_OK, qEntryCount, qReadIdx, gh.hist)
            /\ UNCHANGED flushInProgress
       ELSE /\ flushInProgress' = TRUE
            /\ main' = [main EXCEPT !.pc = "fl_peek"]
            /\ ev' = NoEv
    /\ UNCHANGED <<qvars, qPaused, i2cErrorPending, lcdStatus, bl, shadow, inflight,
                   callsLeft, irqsLeft, ctlLeft, gh>>

\* lcdInit after one of its enq() calls returned (lines 477-483; the result of
\* enq is not looked at): the next setting is enqueued, and after the third the
\* flush is started
AfterInitEnq ==
    IF main.left > 0
    THEN [main EXCEPT !.pc = "enq_chk", !.left = main.left - 1,
                      !.e = QueueEntry(RS_INSTR_REG,
                                       IF main.left = 2 THEN EMS_INSTR(shadow)
                                       ELSE DC_INSTR(shadow)),
                      !.tmp = 0, !.elapsed = 0]
    ELSE [main EXCEPT !.pc = "init_flush", !.tmp = 0]

\* lcdInit, lines 429-459, called once, on the driver as it is after reset
lcdInit(numOfLines, cellHeight, backlight) ==
    /\ main.pc = "idle"
    /\ shadow.lcdhi2c = "NULL"
    /\ shadow' = [shadow EXCEPT
                     !.lcdhi2c = "hi2c",
                     !.FS_numOfLines = IF numOfLines > 1 THEN FS_2LINE_MAP ELSE FS_1LINE_MAP,
                     !.FS_fontSize = IF cellHeight = 10 THEN FS_5x10_DOTS ELSE FS_5x8_DOTS]
    /\ bl' = IF backlight THEN BL_ON ELSE BL_OFF
    /\ main' = [MainIdle EXCEPT !.pc = "init_tx", !.op = "lcdInit", !.left = 4,
                                !.cnt0 = qEntryCount, !.rd0 = qReadIdx]
    /\ gh' = [gh EXCEPT !.enqd = <<>>, !.hist = NotQuiet(gh.hist, TRUE)]
    /\ ev' = NoEv
    /\ UNCHANGED <<qvars, qPaused, flushInProgress, i2cErrorPending, lcdStatus,
                   inflight, callsLeft, irqsLeft, ctlLeft>>

\* lcdInit, lines 461-472: one blocking transmission (three INIT_8BIT_MODE, then
\* one INIT_4BIT_MODE); ok is whether HAL_I2C_Master_Transmit returns HAL_OK.
\* After the fourth, lines 474-477 build the function-set entry and call enq.
InitTx ==
    /\ main.pc = "init_tx"
    /\ \E ok \in BOOLEAN :
         IF ok
         THEN /\ gh' = [gh EXCEPT !.blk = Append(gh.blk,
                            InitBuffer(IF main.left > 1 THEN INIT_8BIT_MODE
                                       ELSE INIT_4BIT_MODE, bl))]
              /\ main' = IF main.left > 1
                         THEN [main EXCEPT !.left = main.left - 1]
                         ELSE [main EXCEPT !.pc = "enq_chk", !.left = 2,
                                           !.e = QueueEntry(RS_INSTR_REG, FS_INSTR(shadow))]
              /\ ev' = NoEv
         ELSE /\ main' = [MainIdle EXCEPT !.elapsed = main.elapsed]
              /\ ev' = [NoEv EXCEPT !.ret = LCD_I2C_TX_INIT_FAIL, !.op = main.op,
                                    !.was = gh.hist]
              /\ gh' = [gh EXCEPT !.hist = "dirty"]
    /\ UNCHANGED <<qvars, qPaused, flushInProgress, i2cErrorPending, lcdStatus, bl,
                   shadow, inflight, callsLeft, irqsLeft, ctlLeft>>

\* lcdInit, line 483: flushInProgress = true, then flush() (line 484)
InitFlush ==
    /\ main.pc = "init_flush"
    /\ flushInProgress' = TRUE
    /\ main' = [main EXCEPT !.pc = "fl_peek"]
    /\ ev' = NoEv
    /\ UNCHANGED <<qvars, qPaused, i2cErrorPending, lcdStatus, bl, shadow, inflight,
                   callsLeft, irqsLeft, ctlLeft, gh>>

\* the running API call returns status
ApiReturn(status, cntAfter, rdAfter, evBase, g) ==
    /\ main' = RetMain
    /\ ev' = RetEv(evBase, status, cntAfter, rdAfter, g.hist)
    /\ gh' = [g EXCEPT !.hist = Worse(g.hist, status # LCD_OK)]

\* a mainline flush step ends with status: flush returns to enqAndBeginFlushing
\* (line 218) or to lcdQueueResume (line 247), which return to the application
\* (line 487), or to lcdInit, which goes on with lcdClear() when the status is
\* LCD_OK (lines 485-487)
FlushReturn(status, cntAfter, rdAfter, evBase, g) ==
    /\ lcdStatus' = StatusAfterFlush(status)
    /\ IF main.op = "lcdInit" /\ status = LCD_OK
       THEN /\ main' = [MainIdle EXCEPT
                           !.pc = "enq_chk", !.op = "lcdClear", !.left = 1 + DUMMY_LOOP,
                           !.e = QueueEntry(RS_INSTR_REG, CLEAR_DISPLAY_INSTR),
                           !.cnt0 = cntAfter, !.rd0 = rdAfter]
            /\ ev' = [evBase EXCEPT !.fl = status, !.caller = main.op]
            /\ gh' = g
       ELSE ApiReturn(status, cntAfter, rdAfter,
                      [evBase EXCEPT !.fl = status, !.caller = main.op], g)

\* ------------------------------------------------------------ mainline: enq
\* enq with an off-by-one loop condition
MutEnqMustWait == qEntryCount > QUEUE_SIZE

\* enq, line 133: while (qEntryCount >= QUEUE_SIZE)
EnqMustWait == qEntryCount >= QUEUE_SIZE

\* enq, line 133: the loop condition
EnqChk ==
    /\ main.pc = "enq_chk"
    /\ main' = [main EXCEPT !.pc = IF EnqMustWait THEN "enq_full" ELSE "enq_store"]
    /\ ev' = NoEv
    /\ UNCHANGED <<qvars, qPaused, flushInProgress, i2cErrorPending, lcdStatus, bl, shadow,
                   inflight, callsLeft, irqsLeft, ctlLeft, gh>>

\* enq, lines 134-139: the loop body.  A failed plain enq() makes lcdClear /
\* lcdReturnHome return at once (lines 303, 308); a failed enq() inside
\* enqAndBeginFlushing is stored in lcdStatus first (lines 209-212); lcdInit
\* ignores it (lines 477-481).
EnqFull ==
    /\ main.pc = "enq_full"
    /\ IF qPaused \/ main.elapsed > TIMEOUT_MS
       THEN LET status == IF qPaused THEN LCD_QUEUE_PAUSED_AND_FULL
                          ELSE LCD_QUEUE_FULL_TIMEOUT
                g == [gh EXCEPT !.failure = IF qPaused THEN gh.failure ELSE status]
            IN  /\ qPaused' = TRUE
                /\ IF main.op = "lcdInit"
                   THEN /\ main' = AfterInitEnq
                        /\ ev' = NoEv
                        /\ gh' = [g EXCEPT !.hist = "dirty"]
                        /\ UNCHANGED lcdStatus
                   ELSE /\ lcdStatus' = IF main.left > 0 THEN lcdStatus ELSE status
                        /\ ApiReturn(status, qEntryCount, qReadIdx, NoEv, g)
       ELSE /\ main' = [main EXCEPT !.pc = "enq_chk"]
            /\ ev' = NoEv
            /\ UNCHANGED <<qPaused, lcdStatus, gh, irqsLeft, ctlLeft>>
    /\ UNCHANGED <<qvars, flushInProgress, i2cErrorPending, bl, shadow, inflight, callsLeft, irqsLeft, ctlLeft>>

\* HAL_GetTick() advances while enq waits
Tick ==
    /\ main.pc = "enq_full"
    /\ main.elapsed <= TIMEOUT_MS
    /\ main' = [main EXCEPT !.elapsed = main.elapsed + 1]
    /\ ev' = NoEv
    /\ UNCHANGED <<qvars, qPaused, flushInProgress, i2cErrorPending, lcdStatus, bl, shadow,
                   inflight, callsLeft, irqsLeft, ctlLeft, gh>>

\* enq, lines 141-142
EnqStore ==
    /\ main.pc = "enq_store"
    /\ queue' = [queue EXCEPT ![qWriteIdx] = main.e]
    /\ qWriteIdx' = (qWriteIdx + 1) % QUEUE_SIZE
    /\ main' = [main EXCEPT !.pc = "enq_ld"]
    /\ gh' = [gh EXCEPT !.pending = Append(gh.pending, main.e),
                        !.enqd = Append(gh.enqd, main.e)]
    /\ ev' = NoEv
    /\ UNCHANGED <<qReadIdx, qEntryCount, qPaused, flushInProgress, i2cErrorPending,
                   lcdStatus, bl, shadow, inflight, callsLeft, irqsLeft, ctlLeft>>

\* enq, line 143: qEntryCount++ reads the counter ...
EnqLoad ==
    /\ main.pc = "enq_ld"
    /\ main' = [main EXCEPT !.pc = "enq_st", !.tmp = qEntryCount]
    /\ ev' = NoEv
    /\ UNCHANGED <<qvars, qPaused, flushInProgress, i2cErrorPending, lcdStatus, bl, shadow,
                   inflight, callsLeft, irqsLeft, ctlLeft, gh>>

\* ... and writes it back; enq returns LCD_OK.  In lcdClear / lcdReturnHome the
\* next enq() follows with the dummy entry (lines 305-310).
EnqInc ==
    /\ main.pc = "enq_st"
    /\ qEntryCount' = (main.tmp + 1) % BYTE
    /\ main' = IF main.op = "lcdInit" THEN AfterInitEnq
               ELSE IF main.left > 0
               THEN [main EXCEPT !.pc = "enq_chk", !.left = main.left - 1,
                                 !.e = QueueEntry(main.e.rs, 0), !.tmp = 0,
                                 !.elapsed = 0]
               ELSE [main EXCEPT !.pc = "kick_chk", !.tmp = 0]
    /\ ev' = NoEv
    /\ UNCHANGED <<queue, qWriteIdx, qReadIdx, qPaused, flushInProgress,
                   i2cErrorPending, lcdStatus, bl, shadow, inflight, callsLeft, irqsLeft, ctlLeft, gh>>

\* a wrong enqAndBeginFlushing: a paused queue does not hold the entry back
MutKickHeld == flushInProgress

\* enqAndBeginFlushing, line 213: if (flushInProgress || qPaused)
KickHeld == flushInProgress \/ qPaused

\* enqAndBeginFlushing, lines 213-217
KickChk ==
    /\ main.pc = "kick_chk"
    /\ IF KickHeld
       THEN /\ lcdStatus' = LCD_OK
            /\ ApiReturn(LCD_OK, qEntryCount, qReadIdx, NoEv, gh)
            /\ UNCHANGED flushInProgress
       ELSE /\ flushInProgress' = TRUE
            /\ main' = [main EXCEPT !.pc = "fl_peek"]
            /\ ev' = NoEv
            /\ UNCHANGED <<lcdStatus, gh, irqsLeft, ctlLeft>>
    /\ UNCHANGED <<qvars, qPaused, i2cErrorPending, bl, shadow, inflight, callsLeft, irqsLeft, ctlLeft>>

\* ---------------------------------------------------------- mainline: flush
\* a wrong qPeek: it does not look at the count
MutqPeek == LCD_OK

\* qPeek, lines 147-151: its status (the entry it copies is queue[qReadIdx])
qPeek == IF qEntryCount = 0 THEN LCD_QUEUE_EMPTY ELSE LCD_OK

\* flush, line 195 (qPeek, lines 147-151), and lines 203-204 on an empty queue
FlushPeek ==
    /\ main.pc = "fl_peek"
    /\ IF qPeek # LCD_OK
       THEN /\ flushInProgress' = FALSE
            /\ FlushReturn(qPeek, qEntryCount, qReadIdx, NoEv, gh)
       ELSE /\ main' = [main EXCEPT !.pc = "fl_tx", !.pe = queue[qReadIdx]]
            /\ ev' = NoEv
            /\ UNCHANGED <<flushInProgress, lcdStatus, gh, irqsLeft, ctlLeft>>
    /\ UNCHANGED <<qvars, qPaused, i2cErrorPending, bl, shadow, inflight, callsLeft, irqsLeft, ctlLeft>>

\* flush, line 197 (txByte, lines 166-191), and lines 203-204 when it fails
FlushTx ==
    /\ main.pc = "fl_tx"
    /\ \E err \in HalErrors, acc \in BOOLEAN :
         LET r == TxByteResult(err, acc)
             g == GhostTx(gh, r, main.pe, qReadIdx, err)
             evt == [EvTx(r, main.pe, qReadIdx, err, gh.refused) EXCEPT
                        !.caller = main.op]
         IN  /\ qPaused' = r.paused
             /\ i2cErrorPending' = r.pend
             /\ IF r.tx = "ok"
                THEN /\ inflight' = inflight + 1
                     /\ main' = [main EXCEPT !.pc = "fl_deq_chk"]
                     /\ ev' = evt
                     /\ gh' = g
                     /\ UNCHANGED <<flushInProgress, lcdStatus, irqsLeft, ctlLeft>>
                ELSE /\ flushInProgress' = FALSE
                     /\ FlushReturn(r.status, qEntryCount, qReadIdx, evt, g)
                     /\ UNCHANGED inflight
    /\ UNCHANGED <<qvars, bl, shadow, callsLeft, irqsLeft, ctlLeft>>

\* flush, line 199 (deq, line 154)
FlushDeqChk ==
    /\ main.pc = "fl_deq_chk"
    /\ IF qEntryCount = 0
       THEN FlushReturn(LCD_OK, qEntryCount, qReadIdx, NoEv, gh)
       ELSE /\ main' = [main EXCEPT !.pc = "fl_deq_idx"]
            /\ ev' = NoEv
            /\ UNCHANGED <<lcdStatus, gh, irqsLeft, ctlLeft>>
    /\ UNCHANGED <<qvars, qPaused, flushInProgress, i2cErrorPending, bl, shadow, inflight,
                   callsLeft, irqsLeft, ctlLeft>>

\* deq, line 155
FlushDeqIdx ==
    /\ main.pc = "fl_deq_idx"
    /\ qReadIdx' = (qReadIdx + 1) % QUEUE_SIZE
    /\ main' = [main EXCEPT !.pc = "fl_deq_ld"]
    /\ ev' = NoEv
    /\ UNCHANGED <<queue, qWriteIdx, qEntryCount, qPaused, flushInProgress,
                   i2cErrorPending, lcdStatus, bl, shadow, inflight, callsLeft, irqsLeft, ctlLeft, gh>>

\* deq, line 156: qEntryCount-- reads the counter ...
FlushDeqLoad ==
    /\ main.pc = "fl_deq_ld"
    /\ main' = [main EXCEPT !.pc = "fl_deq_st", !.tmp = qEntryCount]
    /\ ev' = NoEv
    /\ UNCHANGED <<qvars, qPaused, flushInProgress, i2cErrorPending, lcdStatus, bl, shadow,
                   inflight, callsLeft, irqsLeft, ctlLeft, gh>>

\* ... and writes it back; deq and flush return (lines 157, 200)
FlushDeqDec ==
    /\ main.pc = "fl_deq_st"
    /\ qEntryCount' = (main.tmp - 1) % BYTE
    /\ FlushReturn(LCD_OK, (main.tmp - 1) % BYTE, qReadIdx, NoEv, gh)
    /\ UNCHANGED <<queue, qWriteIdx, qReadIdx, qPaused, flushInProgress,
                   i2cErrorPending, bl, shadow, inflight, callsLeft, irqsLeft, ctlLeft>>

\* ------------------------------------------------------- interrupt context
\* lcdFlushQueue without its qPaused check
MutCpltHeld == FALSE

\* lcdFlushQueue, line 225: if (qPaused)
CpltHeld == qPaused

\* the mainline is in flush() after txByte returned LCD_OK: inside deq()
InDeq == main.pc \in {"fl_deq_chk", "fl_deq_idx", "fl_deq_ld", "fl_deq_st"}

\* HAL_I2C_MasterTxCpltCallback -> lcdFlushQueue (lines 224-231), with the whole
\* flush step (lines 193-205) it runs
TxCplt ==
    /\ inflight > 0
    /\ irqsLeft > 0
    /\ irqsLeft' = irqsLeft - 1
    /\ \E err \in HalErrors, acc \in BOOLEAN :
         LET g0 == [gh EXCEPT !.flying = -1, !.hist = NotQuiet(gh.hist, TRUE),
                              !.raced = gh.raced \/ InDeq]
             ev0 == [NoEv EXCEPT !.cb = "cplt"]
             en == queue[qReadIdx]
             r == TxByteResult(err, acc)
         IN  IF CpltHeld
             THEN /\ flushInProgress' = FALSE
                  /\ lcdStatus' = LCD_OK
                  /\ inflight' = inflight - 1
                  /\ gh' = g0
                  /\ ev' = ev0
                  /\ UNCHANGED <<qvars, qPaused, i2cErrorPending>>
             ELSE IF qPeek # LCD_OK
             THEN /\ flushInProgress' = FALSE
                  /\ lcdStatus' = qPeek
                  /\ inflight' = inflight - 1
                  /\ gh' = g0
                  /\ ev' = [ev0 EXCEPT !.fl = qPeek, !.caller = "cplt"]
                  /\ UNCHANGED <<qvars, qPaused, i2cErrorPending>>
             ELSE /\ qPaused' = r.paused
                  /\ i2cErrorPending' = r.pend
                  /\ lcdStatus' = r.status
                  /\ gh' = GhostTx(g0, r, en, qReadIdx, err)
                  /\ ev' = [EvTx(r, en, qReadIdx, err, gh.refused) EXCEPT
                               !.cb = "cplt", !.fl = r.status, !.caller = "cplt"]
                  /\ IF r.tx = "ok"
                     THEN /\ qReadIdx' = (qReadIdx + 1) % QUEUE_SIZE
                          /\ qEntryCount' = (qEntryCount - 1) % BYTE
                          /\ inflight' = inflight
                          /\ UNCHANGED <<queue, qWriteIdx, flushInProgress>>
                     ELSE /\ flushInProgress' = FALSE
                          /\ inflight' = inflight - 1
                          /\ UNCHANGED qvars
    /\ UNCHANGED <<bl, shadow, main, callsLeft, ctlLeft>>

\* a wrong error handler: it leaves flushInProgress as it is
MutTxError ==
    /\ inflight > 0
    /\ irqsLeft > 0
    /\ irqsLeft' = irqsLeft - 1
    /\ inflight' = inflight - 1
    /\ gh' = [gh EXCEPT !.flying = -1, !.hist = "dirty",
                        !.armed = (qEntryCount > 0 /\ ~qPaused)]
    /\ ev' = [NoEv EXCEPT !.cb = "error", !.idx = gh.flying]
    /\ UNCHANGED <<qvars, qPaused, flushInProgress, i2cErrorPending, lcdStatus, bl, shadow,
                   main, callsLeft, ctlLeft>>

\* HAL_I2C_ErrorCallback -> lcdi2cErrorHandler (lines 233-235)
TxError ==
    /\ inflight > 0
    /\ irqsLeft > 0
    /\ irqsLeft' = irqsLeft - 1
    /\ inflight' = inflight - 1
    /\ flushInProgress' = FALSE
    /\ gh' = [gh EXCEPT !.flying = -1, !.hist = "dirty",
                        !.armed = (qEntryCount > 0 /\ ~qPaused)]
    /\ ev' = [NoEv EXCEPT !.cb = "error", !.idx = gh.flying]
    /\ UNCHANGED <<qvars, qPaused, i2cErrorPending, lcdStatus, bl, shadow, main, callsLeft,
                   ctlLeft>>

\* ------------------------------------------------------------ observers
lcdQueueIsPaused == qPaused /\ flushInProgress
lcdQueueIsFull == qEntryCount >= QUEUE_SIZE
lcdGetStatus == lcdStatus

\* ------------------------------------------------------- specifications
MainStep ==
    \/ ResumeChk
    \/ EnqChk
    \/ EnqFull
    \/ Tick
    \/ EnqStore
    \/ EnqLoad
    \/ EnqInc
    \/ KickChk
    \/ FlushPeek
    \/ FlushTx
    \/ FlushDeqChk
    \/ FlushDeqIdx
    \/ FlushDeqLoad
    \/ FlushDeqDec

Next ==
    \/ \E c \in Chars : lcdPrintChar(c)
    \/ lcdClear
    \/ lcdReturnHome
    \/ \E state \in BOOLEAN : lcdSetBacklight(state)
    \/ lcdQueuePause
    \/ lcdQueueResume
    \/ MainStep
    \/ TxCplt
    \/ TxError

Spec == Init /\ [][Next]_vars

\* the application only prints one character, over and over: the queue fills
NextFull ==
    \/ \E c \in FillChars : lcdPrintChar(c)
    \/ lcdQueuePause
    \/ lcdQueueResume
    \/ MainStep
    \/ TxCplt
    \/ TxError

SpecFull == InitFull /\ [][NextFull]_vars

\* bring-up: the application calls lcdInit on the driver as it is after reset
InitBoot == StaticInit /\ callsLeft = 0 /\ ctlLeft = 0 /\ irqsLeft = InitIrqs

NextInit ==
    \/ \E numOfLines \in {1, 2}, cellHeight \in {8, 10}, backlight \in BOOLEAN :
          lcdInit(numOfLines, cellHeight, backlight)
    \/ InitTx
    \/ InitFlush
    \/ EnqChk
    \/ EnqFull
    \/ Tick
    \/ EnqStore
    \/ EnqLoad
    \/ EnqInc
    \/ KickChk
    \/ FlushPeek
    \/ FlushTx
    \/ FlushDeqChk
    \/ FlushDeqIdx
    \/ FlushDeqLoad
    \/ FlushDeqDec
    \/ TxCplt
    \/ TxError

SpecInit == InitBoot /\ [][NextInit]_vars

\* the transmitter is healthy: HAL_I2C_GetError reads 0 and tx_dma accepts
TxHealthy == ev'.tx \in {"none", "ok"} /\ ev'.err = 0

InitLive == StaticInit /\ callsLeft = LiveCalls /\ ctlLeft = 0 /\ irqsLeft = LiveIrqs

\* mainline code runs on when nothing interrupts it
LiveMain ==
    \/ EnqChk
    \/ EnqFull
    \/ Tick
    \/ EnqStore
    \/ EnqLoad
    \/ EnqInc
    \/ KickChk
    \/ FlushPeek
    \/ FlushTx /\ TxHealthy
    \/ FlushDeqChk
    \/ FlushDeqIdx
    \/ FlushDeqLoad
    \/ FlushDeqDec

\* every started transfer ends with its transfer-complete callback
LiveCplt == TxCplt /\ TxHealthy

NextLive ==
    \/ \E c \in FillChars : lcdPrintChar(c)
    \/ lcdClear
    \/ LiveMain
    \/ LiveCplt

\* The mainline keeps running, the millisecond tick keeps counting while enq
\* waits, and every started transfer is followed by its completion callback.
SpecLive ==
    InitLive /\ [][NextLive]_vars /\ WF_vars(LiveMain) /\ SF_vars(Tick) /\ WF_vars(LiveCplt)

\* ------------------------------------------------------------ settings
\* the application prints one character over and over and makes one settings
\* call, before, while or after the queue fills; the bus is stalled: no transfer
\* the transmitter accepted completes or fails while the calls are made
InitSettings == StaticInit /\ callsLeft = FullCalls /\ ctlLeft = MaxCtl /\ irqsLeft = 0

SettingsCall ==
    /\ main.pc = "idle" /\ callsLeft > 0 /\ ctlLeft > 0
    /\ \/ lcdSetLTR
       \/ lcdSetRTL
       \/ \E state \in BOOLEAN : lcdSetAutoScroll(state)
       \/ \E state \in BOOLEAN : lcdSetDisplay(state)
       \/ \E state \in BOOLEAN : lcdSetCursorVisible(state)
       \/ \E state \in BOOLEAN : lcdSetCursorBlink(state)
       \/ \E state \in BOOLEAN : lcdSetBacklightNow(state)

NextSettings ==
    \/ \E c \in FillChars : lcdPrintChar(c)
    \/ SettingsCall
    \/ EnqChk
    \/ EnqFull
    \/ Tick
    \/ EnqStore
    \/ EnqLoad
    \/ EnqInc
    \/ KickChk
    \/ FlushPeek
    \/ FlushTx
    \/ FlushDeqChk
    \/ FlushDeqIdx
    \/ FlushDeqLoad
    \/ FlushDeqDec

SpecSettings == InitSettings /\ [][NextSettings]_vars

\* ------------------------------------------------- clearing a filling queue
\* lcdClear (lines 300-311) or lcdReturnHome (lines 313-324), called once by an
\* application that otherwise prints
ClearOrHome(name, instr) ==
    /\ main.pc = "idle"
    /\ callsLeft > 0
    /\ ctlLeft > 0
    /\ callsLeft' = callsLeft - 1
    /\ ctlLeft' = ctlLeft - 1
    /\ main' = [MainIdle EXCEPT !.pc = "enq_chk", !.op = name, !.left = 1 + DUMMY_LOOP,
                                !.e = QueueEntry(RS_INSTR_REG, instr),
                                !.cnt0 = qEntryCount, !.rd0 = qReadIdx]
    /\ gh' = [gh EXCEPT !.enqd = <<>>, !.hist = NotQuiet(gh.hist, TRUE)]
    /\ ev' = NoEv
    /\ UNCHANGED <<qvars, qPaused, flushInProgress, i2cErrorPending, lcdStatus, bl, shadow,
                   inflight, irqsLeft>>

\* the application prints one character over and over and calls lcdClear or
\* lcdReturnHome once, before, while or after the queue fills; the bus is
\* stalled: no transfer the transmitter accepted completes or fails meanwhile
InitClear == StaticInit /\ callsLeft = FullCalls /\ ctlLeft = MaxCtl /\ irqsLeft = 0

NextClear ==
    \/ \E c \in FillChars : lcdPrintChar(c)
    \/ ClearOrHome("lcdClear", CLEAR_DISPLAY_INSTR)
    \/ ClearOrHome("lcdReturnHome", RETURN_HOME_INSTR)
    \/ EnqChk
    \/ EnqFull
    \/ Tick
    \/ EnqStore
    \/ EnqLoad
    \/ EnqInc
    \/ KickChk
    \/ FlushPeek
    \/ FlushTx
    \/ FlushDeqChk
    \/ FlushDeqIdx
    \/ FlushDeqLoad
    \/ FlushDeqDec

SpecClear == InitClear /\ [][NextClear]_vars

\* ------------------------------------------------------ cursor positioning
\* one lcdSetCursorPos call on the idle, empty queue: every column for the rows
\* the switch lists, and a row it does not list
InitCursor == StaticInit /\ callsLeft = CursorCalls /\ ctlLeft = 0 /\ irqsLeft = CursorIrqs

\* the application's call (the arguments are only drawn where a call can start)
CursorCall ==
    /\ main.pc = "idle" /\ callsLeft > 0
    /\ \/ \E row \in 0..3, col \in 0..(BYTE - 1) : lcdSetCursorPos(row, col)
       \/ \E row \in 4..MaxRow : lcdSetCursorPos(row, 0)

NextCursor ==
    \/ CursorCall
    \/ EnqChk
    \/ EnqStore
    \/ EnqLoad
    \/ EnqInc
    \/ KickChk
    \/ FlushPeek
    \/ FlushTx
    \/ FlushDeqChk
    \/ FlushDeqIdx
    \/ FlushDeqLoad
    \/ FlushDeqDec
    \/ TxCplt
    \/ TxError

SpecCursor == InitCursor /\ [][NextCursor]_vars

\* ------------------------------------------------------ txByte on its own
\* txByte as a function of its arguments and the backlight mask: every entry
\* (rs, B) with B in 0..255 under either mask.
InitFrame ==
    /\ queue = [i \in 0..(QUEUE_SIZE - 1) |-> ZeroEntry]
    /\ qWriteIdx = 0 /\ qReadIdx = 0 /\ qEntryCount = 0
    /\ qPaused = FALSE /\ flushInProgress = FALSE /\ i2cErrorPending = FALSE
    /\ lcdStatus = LCD_OK
    /\ bl \in {BL_ON, BL_OFF}
    /\ shadow = DefaultSettings
    /\ \E rs \in {RS_INSTR_REG, RS_DATA_REG}, data \in 0..(BYTE - 1) :
         main = [MainIdle EXCEPT !.pe = QueueEntry(rs, data)]
    /\ inflight = 0 /\ callsLeft = 0 /\ ctlLeft = 0 /\ irqsLeft = 0
    /\ gh = GhostInit
    /\ ev = NoEv

\* txByte, lines 166-191, called with the entry in main.pe: no latched error,
\* the transfer is accepted
txByte ==
    /\ main.pc = "idle"
    /\ inflight = 0
    /\ LET r == TxByteResult(0, TRUE)
       IN  /\ ev' = [EvTx(r, main.pe, qReadIdx, 0, -1) EXCEPT !.caller = "txByte"]
           /\ i2cErrorPending' = r.pend
    /\ inflight' = inflight + 1
    /\ UNCHANGED <<qvars, qPaused, flushInProgress, lcdStatus, bl, shadow, main,
                   callsLeft, ctlLeft, irqsLeft, gh>>

SpecFrame == InitFrame /\ [][txByte]_vars

\* ----------------------------------------------------------------- claims
TxDmaCalled == ev.tx \in {"ok", "refused"}
Padding == QueueEntry(RS_INSTR_REG, 0)

\* C1: FIFO, exactly once.  As long as every API call returned LCD_OK, the queue
\* was never paused and no transfer was refused or failed, every frame handed to
\* tx_dma is the frame of the oldest entry that was enqueued and not yet handed
\* over: no entry is sent twice, skipped or overtaken.
FifoExactlyOnce == gh.hist # "dirty" => ~gh.fifoBroken

\* C2: at most one DMA transfer is in flight: accepted tx_dma calls minus
\* completion and error callbacks is 0 or 1 in every reachable state.
AtMostOneInFlight == inflight \in {0, 1}

\* C2 witness: lcdQueueResume was called while a transfer was in flight and
\* returned without starting a second one.
ResumeDuringFlight ==
    /\ inflight = 1 /\ qEntryCount > 0
    /\ ev.op = "lcdQueueResume" /\ ev.ret = LCD_OK /\ ev.fl = "none"

\* C3: pause safety.  From lcdQueuePause until lcdQueueResume is called no step
\* calls tx_dma; lcdQueuePause itself leaves the transfer in flight alone; and the
\* completion callback of that transfer only clears flushInProgress: it starts no
\* transfer and dequeues nothing.
PauseSafety ==
    [][ /\ gh.userPaused' => ~TxDmaCalled'
        /\ (~gh.userPaused /\ gh.userPaused') =>
              (inflight' = inflight /\ flushInProgress' = flushInProgress)
        /\ (gh.userPaused /\ ev'.cb = "cplt") =>
              (~flushInProgress' /\ inflight' = inflight - 1 /\ qvars' = qvars)
      ]_vars

\* C3 witness: the queue was paused by lcdQueuePause with a transfer in flight and
\* entries waiting, and that transfer's completion callback has run.
CompletedWhilePaused == gh.userPaused /\ ev.cb = "cplt" /\ qEntryCount > 0

\* C4: lcdQueueIsPaused() returns true exactly when the queue is paused and no
\* transfer is in flight.
IsPausedMeansBusFree == lcdQueueIsPaused <=> (qPaused /\ inflight = 0)

\* C5: a failed transmit does not drop the entry.  After tx_dma refuses the
\* hand-off, and after the error callback of a started transfer, the entry is
\* still the head of the queue; and the transmit attempt after a refusal is for
\* that same entry.
FailedTransmitKeepsEntry ==
    /\ (ev.tx = "refused" \/ ev.cb = "error") =>
          (qEntryCount > 0 /\ qReadIdx = ev.idx)
    /\ (ev.tx # "none" /\ ev.prev # -1) => ev.idx = ev.prev

\* C6: when tx_dma refuses the hand-off the flush step returns
\* LCD_I2C_TX_INIT_FAIL, the entry stays the head of the queue (read_idx, count
\* and contents as they were) and flushInProgress is cleared; the next transmit
\* attempt, by an API call or by lcdQueueResume, is for that same head entry.
RefusalKeepsHead ==
    /\ ev.tx = "refused" =>
          /\ ev.fl = LCD_I2C_TX_INIT_FAIL
          /\ ~flushInProgress
          /\ qEntryCount > 0 /\ qReadIdx = ev.idx /\ queue[qReadIdx] = ev.e
    /\ (ev.tx # "none" /\ ev.prev # -1) =>
          (ev.idx = ev.prev /\ ev.cb = "none")

\* C7: paired-error policy.  txByte blocks the transfer and pauses the queue
\* exactly when it reads a non-zero latched error and the attempt before read one
\* too; then no tx_dma is called, the entry stays queued, i2cErrorPending is
\* cleared and lcdStatus is LCD_I2C_ERROR, and nothing but lcdQueueResume calls
\* tx_dma afterwards.  A zero reading clears i2cErrorPending and pauses nothing.
PairedErrorPolicy ==
    /\ ev.tx # "none" => (ev.tx = "blocked" <=> (ev.err # 0 /\ ev.pend))
    /\ ev.tx = "blocked" =>
          /\ ev.frame = <<>>
          /\ qPaused /\ ~i2cErrorPending
          /\ qEntryCount > 0 /\ qReadIdx = ev.idx
          /\ lcdGetStatus = LCD_I2C_ERROR
    /\ (gh.failure = LCD_I2C_ERROR /\ TxDmaCalled) => ev.caller = "lcdQueueResume"
    /\ (ev.tx # "none" /\ ev.err = 0) => (~i2cErrorPending /\ qPaused = ev.held)

\* C8 as stated: from the empty idle unpaused queue, with a transmitter that
\* accepts transfers and never completes them, lcdPrintChar calls 1 to QUEUE_SIZE
\* return LCD_OK and call QUEUE_SIZE + 1 waits for the deadline, returns
\* LCD_QUEUE_FULL_TIMEOUT and leaves the queue paused.
TimeoutAtCall33 ==
    (ev.ret # "none" /\ ev.was = "quiet") =>
        LET k == FullCalls - callsLeft
        IN  /\ k <= QUEUE_SIZE => ev.ret = LCD_OK
            /\ k = QUEUE_SIZE + 1 =>
                  /\ ev.ret = LCD_QUEUE_FULL_TIMEOUT
                  /\ main.elapsed > TIMEOUT_MS
                  /\ qPaused

\* C8: full-queue timeout.  From the empty idle unpaused queue, with a transmitter
\* that accepts transfers and never completes them, lcdPrintChar calls 1 to
\* QUEUE_SIZE + 1 return LCD_OK (the first entry left the queue when it was handed
\* to DMA) and call QUEUE_SIZE + 2 waits more than TIMEOUT_MS ticks, returns
\* LCD_QUEUE_FULL_TIMEOUT and leaves the queue paused and full.
FullQueueTimeout ==
    (ev.ret # "none" /\ ev.was = "quiet") =>
        LET k == FullCalls - callsLeft
        IN  /\ k <= QUEUE_SIZE + 1 =>
                  (ev.ret = LCD_OK /\ ~qPaused /\ qEntryCount = k - 1)
            /\ k = QUEUE_SIZE + 2 =>
                  /\ ev.ret = LCD_QUEUE_FULL_TIMEOUT
                  /\ main.elapsed > TIMEOUT_MS
                  /\ qPaused
                  /\ qEntryCount = QUEUE_SIZE
                  /\ lcdGetStatus = LCD_QUEUE_FULL_TIMEOUT
            /\ k <= QUEUE_SIZE + 2

\* C8 witness: the call after the queue filled has timed out.
TimedOutOnFullQueue ==
    /\ ev.ret = LCD_QUEUE_FULL_TIMEOUT
    /\ ev.op = "lcdPrintChar"
    /\ ev.was = "quiet"
    /\ FullCalls - callsLeft = QUEUE_SIZE + 2

\* C9: lcdClear (lcdReturnHome) that returns LCD_OK has enqueued exactly 4
\* entries, the instruction and 3 padding entries, and count has risen by 4 if
\* nothing was dequeued meanwhile.
ClearEnqueuesFour ==
    (ev.ret = LCD_OK /\ ev.op \in {"lcdClear", "lcdReturnHome"}) =>
        /\ gh.enqd = <<QueueEntry(RS_INSTR_REG,
                                  IF ev.op = "lcdClear" THEN CLEAR_DISPLAY_INSTR
                                  ELSE RETURN_HOME_INSTR),
                       Padding, Padding, Padding>>
        /\ ~ev.drained => ev.dcount = 4

\* C10: from the failure that paused the queue (LCD_QUEUE_FULL_TIMEOUT or
\* LCD_I2C_ERROR) until lcdQueueResume is called, lcdGetStatus() returns that
\* failure.
StatusKeepsFailure == gh.failure # "none" => lcdGetStatus = gh.failure

\* C11: lcdStatus is updated on every flush step: in the state after a flush step
\* ended, whoever ran it (an API call, the completion callback, lcdQueueResume),
\* lcdGetStatus() returns the status that step produced.
StatusAfterEveryFlush == ev.fl # "none" => lcdGetStatus = ev.fl

\* C12: 0 <= count <= QUEUE_SIZE in every reachable state, and lcdQueueIsFull()
\* returns true exactly when count = QUEUE_SIZE.
CountInBounds ==
    /\ qEntryCount >= 0 /\ qEntryCount <= QUEUE_SIZE
    /\ lcdQueueIsFull <=> (qEntryCount = QUEUE_SIZE)

\* the buffers of lcdInit's blocking transmissions and the entries it enqueues
BlockingOrder ==
    <<InitBuffer(INIT_8BIT_MODE, bl), InitBuffer(INIT_8BIT_MODE, bl),
      InitBuffer(INIT_8BIT_MODE, bl), InitBuffer(INIT_4BIT_MODE, bl)>>
SettingsOrder ==
    <<QueueEntry(RS_INSTR_REG, FS_INSTR(shadow)), QueueEntry(RS_INSTR_REG, EMS_INSTR(shadow)),
      QueueEntry(RS_INSTR_REG, DC_INSTR(shadow)),
      QueueEntry(RS_INSTR_REG, CLEAR_DISPLAY_INSTR)>>

\* C18: bring-up ordering.  lcdInit sends three INIT_8BIT_MODE buffers and one
\* INIT_4BIT_MODE buffer with blocking transmissions before anything is enqueued;
\* if one of them fails it returns LCD_I2C_TX_INIT_FAIL with the queue empty and no
\* DMA transfer started; otherwise the entries are enqueued as FS, EMS, DC, clear,
\* padding, and are handed to DMA in that order, the FS frame first.
BringUpOrdering ==
    /\ Len(gh.blk) <= 4
    /\ \A i \in 1..Len(gh.blk) : gh.blk[i] = BlockingOrder[i]
    /\ Len(gh.blk) < 4 =>
          /\ gh.enqd = <<>> /\ qEntryCount = 0 /\ qWriteIdx = 0 /\ qReadIdx = 0
          /\ inflight = 0 /\ ~flushInProgress /\ ev.tx = "none"
          /\ ev.ret # "none" => ev.ret = LCD_I2C_TX_INIT_FAIL
    /\ \A i \in 1..Len(gh.enqd) :
          gh.enqd[i] = IF i <= 4 THEN SettingsOrder[i] ELSE Padding
    /\ ~gh.fifoBroken

\* C13: drain liveness.  If the queue is never paused and every started transfer is
\* followed by its transfer-complete callback, every entry enqueued is eventually
\* handed to tx_dma and the pipeline eventually comes to rest with count = 0 and
\* flushInProgress false, with no further API call.
DrainLiveness ==
    ([]~qPaused /\ [](irqsLeft > 0)) =>
        /\ (gh.pending # <<>>) ~> (gh.pending = <<>>)
        /\ (qEntryCount > 0) ~> (qEntryCount = 0 /\ ~flushInProgress)

\* C14: framing.  Every buffer txByte builds for an entry (rs, B), B in 0..255,
\* under backlight mask bl has exactly 6 bytes f with f[0] = f[2] = (B & 0xF0)|rs|bl,
\* f[1] = f[0]|0x04, f[3] = f[5] = ((B << 4) & 0xF0)|rs|bl, f[4] = f[3]|0x04, and the
\* high nibbles of f[0] and f[3] put together give B back; (DATA, 0x48) with the
\* backlight on gives [0x49,0x4D,0x49,0x89,0x8D,0x89] and 'i' = 0x69 gives
\* [0x69,0x6D,0x69,0x99,0x9D,0x99].
FramingCorrect ==
    ev.frame # <<>> =>
        LET f == ev.frame
            B == ev.e.data
            up == (B \div 16) * 16 + ev.e.rs + bl
            low == (B % 16) * 16 + ev.e.rs + bl
        IN  /\ Len(f) = 6
            /\ f[1] = up /\ f[3] = up /\ f[2] = up + 4
            /\ f[4] = low /\ f[6] = low /\ f[5] = low + 4
            /\ (f[1] \div 16) * 16 + (f[4] \div 16) = B
            /\ (ev.e = QueueEntry(RS_DATA_REG, 72) /\ bl = BL_ON)
                   => f = <<73, 77, 73, 137, 141, 137>>
            /\ (ev.e = QueueEntry(RS_DATA_REG, 105) /\ bl = BL_ON)
                   => f = <<105, 109, 105, 153, 157, 153>>

\* C14 witness: the buffer of 'H' with the backlight on was handed to DMA.
FrameOfH ==
    /\ ev.tx = "ok" /\ ev.e = QueueEntry(RS_DATA_REG, 72) /\ bl = BL_ON
    /\ ev.frame = <<73, 77, 73, 137, 141, 137>>

\* C15: backlight coherence.  A step that changes the backlight mask stores no
\* entry, moves no index, leaves the count, the flags, the status and the
\* transfer in flight alone and builds no frame; and every frame built carries
\* the mask of the latest lcdSetBacklight call in bit 3 of all 6 bytes, whether
\* its entry was enqueued before or after that call.
BacklightCoherence ==
    [][/\ bl' # bl =>
            /\ UNCHANGED <<qvars, qPaused, flushInProgress, i2cErrorPending, lcdStatus,
                           shadow, main, inflight, gh>>
            /\ ev'.frame = <<>>
       /\ ev'.frame # <<>> =>
            \A i \in 1..Len(ev'.frame) : BitAnd(ev'.frame[i], BL_ON) = bl']_vars

\* C15 witness: after lcdSetBacklight(false) the completion callback built the
\* frame of an entry that lcdClear had enqueued before that call, with bit 3
\* clear in every byte.
DarkFrameOfEarlierEntry ==
    /\ bl = BL_OFF /\ ev.cb = "cplt" /\ ev.tx = "ok"
    /\ ev.e \in {gh.enqd[i] : i \in 1..Len(gh.enqd)}
    /\ \A i \in 1..6 : BitAnd(ev.frame[i], BL_ON) = 0

\* C16: for row in 0..3 and every col in 0..255, lcdSetCursorPos(row, col) has
\* enqueued, when it returns, exactly one entry (INSTR, 0x80 + base(row) + col)
\* with base 0x00, 0x40, 0x14, 0x54 for rows 0, 1, 2, 3; the byte has bit 7 set
\* and the sum fits in 8 bits; lcdSetCursorPos(1, 3) enqueues (INSTR, 0xC3).
CursorPosEntry ==
    (ev.op = "lcdSetCursorPos" /\ gh.args[1] <= 3) =>
        LET row == gh.args[1]
            col == gh.args[2]
            base == IF row = 0 THEN 0 ELSE IF row = 1 THEN 64 ELSE IF row = 2 THEN 20 ELSE 84
            sum == 128 + base + col
        IN  /\ gh.enqd = <<QueueEntry(RS_INSTR_REG, sum)>>
            /\ sum < BYTE
            /\ BitAnd(gh.enqd[1].data, SET_DDRAM_ADDR_INSTR_BIT) = SET_DDRAM_ADDR_INSTR_BIT
            /\ (row = 1 /\ col = 3) => gh.enqd = <<QueueEntry(RS_INSTR_REG, 195)>>

\* C17: lcdSetCursorPos(row, col) with row >= 4 does nothing: from the call on no
\* entry is stored, write_idx, read_idx and count stay as they were (0 on the
\* empty queue after reset) and no frame is handed to tx_dma.
CursorBadRowNoOp ==
    (gh.args # <<>> /\ gh.args[1] >= 4) =>
        /\ gh.enqd = <<>>
        /\ qWriteIdx = 0 /\ qReadIdx = 0 /\ qEntryCount = 0
        /\ ~TxDmaCalled

\* C19: a failed enqueue discards the entry and keeps the queue intact.  When the
\* loop body of enq runs on a full queue that is paused, the call returns
\* LCD_QUEUE_PAUSED_AND_FULL whatever time has passed; on a full unpaused queue
\* past the deadline it returns LCD_QUEUE_FULL_TIMEOUT and sets qPaused; these
\* two statuses are returned nowhere else, and the returning step stores
\* nothing and leaves the contents, write_idx, read_idx and count as they are.
\* A call that has stored its entry in a paused queue returns LCD_OK, with the
\* entry last in the queue and no transfer started.
EnqueueFailureKeepsQueue ==
    [][/\ (main.pc = "enq_full" /\ main'.pc # "enq_full") =>
            /\ qPaused => ev'.ret = LCD_QUEUE_PAUSED_AND_FULL
            /\ (~qPaused /\ main.elapsed > TIMEOUT_MS) =>
                    (ev'.ret = LCD_QUEUE_FULL_TIMEOUT /\ qPaused')
            /\ (~qPaused /\ main.elapsed <= TIMEOUT_MS) => ev'.ret = "none"
       /\ ev'.ret \in {LCD_QUEUE_PAUSED_AND_FULL, LCD_QUEUE_FULL_TIMEOUT} =>
            /\ main.pc = "enq_full"
            /\ UNCHANGED qvars
            /\ gh'.enqd = <<>> /\ gh'.pending = gh.pending
            /\ ev'.tx = "none" /\ UNCHANGED inflight
       /\ (main.pc = "kick_chk" /\ qPaused /\ main' # main) =>
            /\ ev'.ret = LCD_OK /\ ev'.op = main.op
            /\ gh'.enqd = <<main.e>>
            /\ queue'[(qWriteIdx' + QUEUE_SIZE - 1) % QUEUE_SIZE] = main.e
            /\ ev'.tx = "none" /\ UNCHANGED <<inflight, flushInProgress>>]_vars

\* C19 witness: a call on the paused queue holding QUEUE_SIZE entries was
\* refused at once, with the queue as it was.
RefusedOnPausedFullQueue ==
    /\ ev.ret = LCD_QUEUE_PAUSED_AND_FULL /\ ev.op = "lcdPrintChar"
    /\ main.elapsed = 0
    /\ qEntryCount = QUEUE_SIZE /\ Len(gh.pending) = QUEUE_SIZE
    /\ ev.dcount = 0 /\ ~ev.drained

\* what a flush step run on an empty queue does, if it returns status: the
\* mainline step at qPeek and the completion callback on the unpaused queue
FlushOnEmptyGives(status) ==
    /\ (main.pc = "fl_peek" /\ qEntryCount = 0 /\ main' # main) =>
            /\ ~flushInProgress'
            /\ ev'.fl = status
            /\ main.op = "lcdQueueResume" =>
                    (ev'.op = "lcdQueueResume" /\ ev'.ret = status)
    /\ (ev'.cb = "cplt" /\ ~qPaused /\ qEntryCount = 0) =>
            /\ ~flushInProgress'
            /\ ev'.fl = status
            /\ lcdGetStatus' = status

\* C20 as stated: a flush step run on an empty queue clears flushInProgress and
\* returns LCD_OK, so that lcdGetStatus() is LCD_OK after the completion callback
\* found the queue empty and lcdQueueResume() on an empty idle queue returns
\* LCD_OK.
FlushOnEmptyReturnsOk == [][FlushOnEmptyGives(LCD_OK)]_vars

\* C20: a flush step run on an empty queue clears flushInProgress and returns
\* LCD_QUEUE_EMPTY: after the completion callback found the queue empty
\* lcdGetStatus() is LCD_QUEUE_EMPTY, and lcdQueueResume() on an empty idle queue
\* returns LCD_QUEUE_EMPTY.
FlushOnEmptyReturnsEmpty == [][FlushOnEmptyGives(LCD_QUEUE_EMPTY)]_vars

\* C20 witness: the only entry was sent, and the completion callback of its
\* transfer found the queue empty.
DrainedToEmpty ==
    /\ ev.cb = "cplt" /\ ev.fl = LCD_QUEUE_EMPTY
    /\ qEntryCount = 0 /\ ~flushInProgress /\ inflight = 0
    /\ gh.pending = <<>> /\ ~gh.fifoBroken
    /\ lcdGetStatus = LCD_QUEUE_EMPTY

\* the entries in queue[read_idx .. read_idx + count) mod QUEUE_SIZE, oldest first
LiveEntries ==
    [i \in 1..qEntryCount |-> queue[(qReadIdx + i - 1) % QUEUE_SIZE]]

\* C21: ring consistency.  Whenever the mainline is outside the driver (so that
\* no enq or deq is half done), write_idx = (read_idx + count) mod QUEUE_SIZE and
\* the live entries queue[read_idx .. read_idx + count) are exactly the entries
\* enqueued and not yet handed over, also when a completion callback preempted
\* enq between its read and its write of count.  Runs in which a callback
\* preempted deq() in the mainline flush are left aside here (they are C1's).
RingConsistent ==
    (main.pc = "idle" /\ ~gh.raced) =>
        /\ qWriteIdx = (qReadIdx + qEntryCount) % QUEUE_SIZE
        /\ LiveEntries = gh.pending

\* C22: restart after a transfer error.  The error callback clears
\* flushInProgress and changes nothing else: queue, indices, count, qPaused,
\* i2cErrorPending and the status are untouched and no transfer is started.  If
\* it leaves a non-empty, unpaused queue, then no API call that enqueued its
\* entry, and no lcdQueueResume, returns with the queue still unpaused and
\* non-empty without txByte having been called on the head entry (the call whose
\* own deq() the callback interrupted returns first; the rule is for the next).
RestartAfterError ==
    [][/\ ev'.cb = "error" =>
            /\ ~flushInProgress'
            /\ UNCHANGED <<qvars, qPaused, i2cErrorPending, lcdStatus, bl, shadow, main>>
            /\ ev'.tx = "none" /\ inflight' = inflight - 1
       /\ ~(ev'.ret # "none" /\ ~InDeq /\ gh'.armed /\ ~qPaused' /\ qEntryCount' > 0)
       /\ (main.pc = "fl_tx" /\ main' # main) =>
            (ev'.tx # "none" /\ ev'.e = main.pe /\ main.pe = queue[qReadIdx])]_vars

\* C22 witness: after an error callback had left entries in the unpaused queue,
\* an API call handed the head entry to DMA.
RestartedAfterError ==
    /\ ev.restart /\ ev.tx = "ok" /\ ev.caller = "lcdPrintChar"
    /\ ev.e = queue[qReadIdx] /\ ev.idx = qReadIdx
    /\ ~gh.raced /\ ~gh.fifoBroken
    /\ inflight = 1 /\ flushInProgress

\* C23: the status an enqueueing call returns tells whether its entry was
\* accepted: lcdPrintChar (or lcdSetCursorPos) returns LCD_OK if and only if it
\* stored its entry in the queue, and after any other status the queue holds
\* no entry from that call.
ReturnTellsAcceptance ==
    (ev.ret # "none" /\ ev.op \in {"lcdPrintChar", "lcdSetCursorPos"}) =>
        (ev.ret = LCD_OK <=> gh.enqd # <<>>)

SettingsCalls ==
    {"lcdSetLTR", "lcdSetRTL", "lcdSetAutoScroll", "lcdSetDisplay", "lcdSetCursorVisible",
     "lcdSetCursorBlink", "lcdSetBacklightNow"}

\* C24: when a settings call returns LCD_QUEUE_PAUSED_AND_FULL or
\* LCD_QUEUE_FULL_TIMEOUT, the settings bytes and the backlight mask have the
\* values they had before the call.
ShadowKeptOnFailure ==
    (ev.op \in SettingsCalls
        /\ ev.ret \in {LCD_QUEUE_PAUSED_AND_FULL, LCD_QUEUE_FULL_TIMEOUT}) =>
        <<shadow, bl>> = gh.before

\* C25: lcdClear and lcdReturnHome are all-or-nothing.  A call that returns
\* LCD_OK has enqueued the instruction and all the entries that follow it; a
\* call that returns LCD_QUEUE_PAUSED_AND_FULL or LCD_QUEUE_FULL_TIMEOUT has
\* enqueued nothing and lcdGetStatus() gives that status; no call returns with
\* the instruction queued and part of its padding missing.
ClearAllOrNothing ==
    (ev.ret # "none" /\ ev.op \in {"lcdClear", "lcdReturnHome"}) =>
        /\ ev.ret = LCD_OK => Len(gh.enqd) = 2 + DUMMY_LOOP
        /\ ev.ret \in {LCD_QUEUE_PAUSED_AND_FULL, LCD_QUEUE_FULL_TIMEOUT} =>
               (gh.enqd = <<>> /\ lcdGetStatus = ev.ret)
        /\ Len(gh.enqd) \in {0, 2 + DUMMY_LOOP}

====
